---- MODULE Spec2Model ----
(***************************************************************************)
(* Ledger model of finityedge/shop-be: stock, stock movements, sales,      *)
(* sales returns, purchase orders and payments, as mutated by the request  *)
(* handlers of apps/sale and apps/inventory.                               *)
(*                                                                         *)
(* Decimal amounts are integers: money in cents, quantities in whole       *)
(* units, discount percentages in whole percent.  Values computed from     *)
(* item fields carry two further decimal places ("centi-cents") until they *)
(* are stored in a DecimalField(decimal_places=2).                         *)
(*                                                                         *)
(* request.user.shop and request.user.shop_user.shop both denote the shop  *)
(* of the caller; every request of this model is made by a user of shop    *)
(* "A".  Rows of another shop exist in the initial state of ShopSpec only. *)
(***************************************************************************)
EXTENDS Integers, Sequences, FiniteSets, TLC

\* ------------------------------------------------------------------ bounds
NumProducts == 1
MaxInitialStock == 2
MaxQty == 2
MaxItems == 2
MaxSales == 1
MaxReturns == 1
MaxReturnItems == 1
MaxOrders == 1
MaxMovements == 3
MaxRows == 4
MaxPayments == 2
TotalsStock == 4
TotalsMaxQty == 3
NumProcs == 2
ConcInitialStock == 2
ConcOrdered == 2

ProductIds == 1..NumProducts
UnitPrices == {1000}
DiscountPercentages == {0}
AdjustmentValues == {-2, -1, 0, 1}
PaymentAmounts == {-500, 0, 500, 1000}
UpdateAmounts == {500}
PAYMENT_STATUS == {"PENDING", "PARTIAL", "PAID", "OVERDUE"}
TotalsUnitPrices == {1000, 1055, 5000}
TotalsDiscountPercentages == {0, 10}
STATUS_CHOICES == {"DRAFT", "PENDING", "ORDERED", "RECEIVED", "CANCELLED"}
StatusInputs == STATUS_CHOICES \cup {"", "SHIPPED"}
ReceivedQuantities == {-1, 0, 1, 2}
ConcSaleTotal == 1000
OrderTotalsUnitPrices == {1000, 2500}
ReturnStock == 2
MaxReturnRows == 2
MaxReturnLines == 2
MaxInvoiceNumbers == 3
MaxInvoiceSales == 3
InvoiceStock == 4
MaxShopSales == 2
MaxShopMovements == 3
MaxShopPayments == 1
ConcPaymentAmounts == {400, 500, 1000}

\* ------------------------------------------------------------- state
VARIABLES
    products,    \* Product rows: product id -> shop
    is_active,   \* Product.is_active: product id -> BOOLEAN
    users,       \* User rows, in insertion order
    shops,       \* Shop rows
    shop_users,  \* ShopUser rows
    expenses,    \* Expense rows, in insertion order
    expense_payments,   \* ExpensePayment rows
    stock,       \* Stock rows: product id -> quantity
    movements,   \* StockMovement rows, in insertion order
    sales,       \* Sale rows with their SaleItem rows, in insertion order
    returns,     \* SalesReturn rows with their SalesReturnItem rows
    orders,      \* PurchaseOrder rows with their PurchaseOrderItem rows
    payments,    \* Payment rows
    last,        \* the last request handled and its HTTP status
    proc         \* the requests in flight: position, locals, uncommitted writes

\* the tables of the users and shop apps, and the ones of the expense app
account_tables == <<users, shops, shop_users>>

expense_tables == <<expenses, expense_payments>>

vars == <<account_tables, expense_tables, products, is_active, stock, movements,
          sales, returns, orders, payments, last, proc>>

\* ------------------------------------------------------------- helpers
\* request.user.shop_user.shop
request_user_shop == "A"

\* Product.objects.filter(shop=request.user.shop)
ShopProducts == {p \in DOMAIN products : products[p] = request_user_shop}

SeqsUpTo(S, n) == UNION {[1..k -> S] : k \in 1..n}

RECURSIVE SumSeq(_, _)
SumSeq(f, k) == IF k = 0 THEN 0 ELSE f[k] + SumSeq(f, k - 1)

Response(op, req, status) == [op |-> op, req |-> req, status |-> status]

\* DecimalField(max_digits=10, decimal_places=2): a value with more than two
\* decimal places is rounded to the nearest cent (ties to even) when stored.
Quantize(cc) ==
    LET q == cc \div 100
        r == cc % 100
    IN  IF r > 50 \/ (r = 50 /\ q % 2 = 1) THEN q + 1 ELSE q

\* ------------------------------------------------------- SaleItem properties
\* in centi-cents
SaleItem_subtotal(item) == item.quantity * item.unit_price * 100

SaleItem_discount_amount_asFraction(item) ==
    item.quantity * item.unit_price * item.discount_percentage * 100

SaleItem_discount_amount(item) ==
    item.quantity * item.unit_price * item.discount_percentage

SaleItem_total(item) == SaleItem_subtotal(item) - SaleItem_discount_amount(item)

balance_due(sale) == sale.total - sale.paid_amount

\* --------------------------------------------------------- StockMovement
\* IN and RET add, OUT removes, ADJ carries its own sign
SignedQuantity(m) ==
    IF m.movement_type = "OUT" THEN 0 - m.quantity ELSE m.quantity

RECURSIVE MovementSum(_, _, _)
MovementSum(ms, p, k) ==
    IF k = 0 THEN 0
    ELSE (IF ms[k].product = p THEN SignedQuantity(ms[k]) ELSE 0)
         + MovementSum(ms, p, k - 1)

Movement(p, type, q) == [product |-> p, movement_type |-> type, quantity |-> q]

\* The model explores histories that write at most MaxRows ledger rows; the
\* next-state relations below keep the steps that stay within these bounds.
Rows == Len(movements) + Len(sales) + Len(returns) + Len(orders)

WithinBounds ==
    /\ Len(movements) <= MaxMovements
    /\ Len(sales) <= MaxSales
    /\ Len(returns) <= MaxReturns
    /\ Len(orders) <= MaxOrders
    /\ Len(payments) <= MaxPayments
    /\ Rows <= MaxRows

\* A request handler that is not running.
Idle == [pc |-> "idle", op |-> "none", req |-> << >>, k |-> 0, mem |-> 0,
         status |-> 0, wStock |-> << >>, wSales |-> << >>, wMoves |-> << >>,
         wRecv |-> << >>, wStatus |-> "none", wPays |-> << >>,
         wPaid |-> << >>]

Procs == 1..NumProcs

\* --------------------------------------------------------------- Init
Init ==
    /\ proc = [i \in Procs |-> Idle]
    /\ products = << >>
    /\ is_active = << >>
    /\ users = << >>
    /\ shops = << >>
    /\ shop_users = << >>
    /\ expenses = << >>
    /\ expense_payments = << >>
    /\ stock = << >>
    /\ movements = << >>
    /\ sales = << >>
    /\ returns = << >>
    /\ orders = << >>
    /\ payments = << >>
    /\ last = Response("none", << >>, 0)

\* ------------------------------------------------ ProductListCreateView.create
\* Product ids are assigned in increasing order.  A Stock row and an IN
\* movement are written only for a truthy initial_stock.
ProductListCreateView_create(initial_stock) ==
    LET p == Cardinality(DOMAIN products) + 1 IN
    /\ p \in ProductIds
    /\ products' = products @@ (p :> request_user_shop)
    /\ is_active' = is_active @@ (p :> TRUE)
    /\ IF initial_stock # 0
          THEN /\ Len(movements) < MaxMovements
               /\ stock' = stock @@ (p :> initial_stock)
               /\ movements' = Append(movements, Movement(p, "IN", initial_stock))
          ELSE UNCHANGED <<stock, movements>>
    /\ last' = Response("product", initial_stock, 201)
    /\ UNCHANGED <<account_tables, expense_tables, sales, returns, orders,
                   payments, proc>>

\* ------------------------------------------ SaleItemCreateSerializer.validate
\* product.stock raises when the product has no Stock row
SaleItem_hasStockRow(st, item) == item.product \in DOMAIN st

SaleItemCreateSerializer_validate_offByOne(st, item) ==
    ~ (st[item.product] <= item.quantity)

SaleItemCreateSerializer_validate(st, item) ==
    ~ (st[item.product] < item.quantity)

\* --------------------------------------------- SaleCreateSerializer.create
\* The Sale row as persisted after the items are created and the totals saved.
SaleCreateSerializer_create(items, invoice_number) ==
    LET subtotal == SumSeq([k \in 1..Len(items) |-> SaleItem_total(items[k])],
                           Len(items))
        discount_amount == 0
        tax_amount == 0
    IN  [ shop |-> request_user_shop,
          invoice_number |-> invoice_number,
          items |-> items,
          subtotal |-> Quantize(subtotal),
          discount_amount |-> discount_amount,
          tax_amount |-> tax_amount,
          total |-> Quantize(subtotal + tax_amount * 100 - discount_amount * 100),
          paid_amount |-> 0,
          payment_status |-> "PENDING" ]

\* --------------------------------------------- SaleListCreateView.create
\* The loop over sale.items.all(): every item reads the Stock row afresh,
\* subtracts, and either raises or saves.
RECURSIVE UpdateStockLevels(_, _, _)
UpdateStockLevels(st, items, k) ==
    IF k > Len(items) THEN [stock |-> st, ok |-> TRUE]
    ELSE LET p == items[k].product
             q == st[p] - items[k].quantity
         IN  IF q < 0 THEN [stock |-> st, ok |-> FALSE]
             ELSE UpdateStockLevels([st EXCEPT ![p] = q], items, k + 1)

SaleItems == [product : ProductIds, quantity : 1..MaxQty,
              unit_price : UnitPrices, discount_percentage : DiscountPercentages]

\* ------------------------------- SaleListCreateView.generate_invoice_number
\* The number is "<prefix>-<yyyymmdd>-<sequence>-<4 random characters><ms
\* timestamp mod 10000>".  The sequence is looked up under the prefix
\* "<prefix>-<yyyy>-<mm>", which no stored number starts with, so it is
\* always 1, and the number is told apart from the others of the day by its
\* random and timestamp part only: the generator returns any number.
generate_invoice_number == 1..MaxInvoiceNumbers

\* the runs in which the generator returns a number not stored yet
FreshInvoiceNumbers == {Len(sales) + 1}

\* Sale.invoice_number is unique=True: the INSERT of a stored number fails
invoice_number_exists(invoice_number) ==
    \E s \in 1..Len(sales) : sales[s].invoice_number = invoice_number

\* the response to a sale creation, with the invoice number generated for it
\* and the number of calls of generate_invoice_number the handler made: none
\* when the validation fails, else one
SaleResponse(items, status, invoice_number, generated) ==
    [op |-> "sale", req |-> items, status |-> status,
     invoice_number |-> invoice_number, generated |-> generated]

SaleListCreateView_create(items, invoice_number) ==
    /\ \A k \in 1..Len(items) : items[k].product \in DOMAIN products
    /\ IF \E k \in 1..Len(items) : ~ SaleItem_hasStockRow(stock, items[k])
          THEN /\ last' = SaleResponse(items, 500, 0, 0)
               /\ UNCHANGED <<stock, sales>>
       ELSE IF \E k \in 1..Len(items) :
                   ~ SaleItemCreateSerializer_validate(stock, items[k])
          THEN /\ last' = SaleResponse(items, 400, 0, 0)
               /\ UNCHANGED <<stock, sales>>
       ELSE IF invoice_number_exists(invoice_number)
          THEN /\ last' = SaleResponse(items, 400, invoice_number, 1)
               /\ UNCHANGED <<stock, sales>>
       ELSE LET r == UpdateStockLevels(stock, items, 1) IN
               /\ sales' = Append(sales,
                                  SaleCreateSerializer_create(items, invoice_number))
               /\ stock' = r.stock
               /\ last' = SaleResponse(items, IF r.ok THEN 201 ELSE 400,
                                       invoice_number, 1)
    /\ UNCHANGED <<account_tables, expense_tables,
                   products, is_active, movements, returns, orders, payments, proc>>

\* ------------------------------------------------- F('quantity') + value
\* An F() expression is evaluated by the database against the row as it is
\* when the UPDATE runs, not against the value the handler read earlier.
FExprAdd_stale(dbValue, memValue, delta) == memValue + delta

FExprAdd(dbValue, memValue, delta) == dbValue + delta

\* Stock.objects.get_or_create(product=..., defaults={'quantity': 0, ...})
Stock_get_or_create(st, p) == IF p \in DOMAIN st THEN st ELSE st @@ (p :> 0)

\* ------------------------------------------------ StockAdjustmentView.post
StockAdjustmentView_post(product_id, adjustment) ==
    /\ IF adjustment = 0
          THEN /\ last' = Response("adjust", <<product_id, adjustment>>, 400)
               /\ UNCHANGED <<stock, movements>>
       ELSE IF product_id \notin ShopProducts
          THEN /\ last' = Response("adjust", <<product_id, adjustment>>, 500)
               /\ UNCHANGED <<stock, movements>>
       ELSE LET st == Stock_get_or_create(stock, product_id) IN
               /\ stock' = [st EXCEPT ![product_id] =
                               FExprAdd(st[product_id], st[product_id], adjustment)]
               /\ movements' = Append(movements,
                                      Movement(product_id, "ADJ", adjustment))
               /\ last' = Response("adjust", <<product_id, adjustment>>, 200)
    /\ UNCHANGED <<account_tables, expense_tables,
                   products, is_active, sales, returns, orders, payments, proc>>

\* ------------------------------------ SalesReturnItemCreateSerializer.validate
SaleItemRefs == {ref \in (1..MaxSales) \X (1..MaxItems) :
                    /\ ref[1] <= Len(sales)
                    /\ ref[2] <= Len(sales[ref[1]].items)}

SaleItemOf(ref) == sales[ref[1]].items[ref[2]]

SalesReturnItemCreateSerializer_validate_oneOver(item) ==
    ~ (item.quantity > SaleItemOf(item.sale_item).quantity + 1)

SalesReturnItemCreateSerializer_validate(item) ==
    ~ (item.quantity > SaleItemOf(item.sale_item).quantity)

\* --------------------------------------- SalesReturnListCreateView.create
\* The loop over sales_return.items.all(): read the Stock row, add, save.
RECURSIVE ReturnStockLevels(_, _, _)
ReturnStockLevels(st, items, k) ==
    IF k > Len(items) THEN st
    ELSE LET p == SaleItemOf(items[k].sale_item).product IN
         ReturnStockLevels([st EXCEPT ![p] = st[p] + items[k].quantity],
                           items, k + 1)

SalesReturnItems == [sale_item : SaleItemRefs, quantity : 1..MaxQty]

SalesReturnListCreateView_create(sale, items) ==
    /\ sale \in 1..Len(sales)
    /\ IF \E k \in 1..Len(items) :
              ~ SalesReturnItemCreateSerializer_validate(items[k])
          THEN /\ last' = Response("return", <<sale, items>>, 400)
               /\ UNCHANGED <<stock, returns>>
          ELSE /\ returns' = Append(returns, [shop |-> request_user_shop,
                                              sale |-> sale, items |-> items,
                                              status |-> "PENDING"])
               /\ stock' = ReturnStockLevels(stock, items, 1)
               /\ last' = Response("return", <<sale, items>>, 201)
    /\ UNCHANGED <<account_tables, expense_tables,
                   products, is_active, movements, sales, orders, payments, proc>>

\* ---------------------------------------- PurchaseOrderListCreateView.create
PurchaseOrderItem(it) ==
    [product |-> it.product, quantity |-> it.quantity,
     unit_price |-> it.unit_price, received_quantity |-> 0]

PurchaseOrderItem_total_price(it) == it.quantity * it.unit_price

\* the items created before the first product lookup that fails
RECURSIVE CreateOrderItems(_, _)
CreateOrderItems(items, k) ==
    IF k > Len(items) \/ items[k].product \notin ShopProducts THEN << >>
    ELSE <<PurchaseOrderItem(items[k])>> \o CreateOrderItems(items, k + 1)

OrderItems == [product : ProductIds, quantity : 1..MaxQty, unit_price : UnitPrices]

\* po_number is f'PO-{timezone.now().strftime("%Y%m%d%H%M%S")}': one number
\* per clock second, written here as the number of the second.
\* PurchaseOrder.po_number is unique=True: the INSERT of a stored number
\* fails.
po_number_exists(po_number) ==
    \E po \in 1..Len(orders) : orders[po].po_number = po_number

\* the runs in which the request is served in a second of its own
FreshPoNumbers == {Len(orders) + 1}

PurchaseOrderListCreateView_create(items, po_number) ==
    LET created == CreateOrderItems(items, 1)
        draft == [po_number |-> po_number, status |-> "DRAFT", items |-> created,
                  subtotal |-> 0, tax_amount |-> 0, total |-> 0]
        subtotal == SumSeq([k \in 1..Len(created) |->
                               PurchaseOrderItem_total_price(created[k])],
                           Len(created))
    IN
    /\ IF po_number_exists(po_number)
          THEN /\ UNCHANGED orders
               /\ last' = Response("order", items, 500)
       ELSE IF Len(items) = 0
          THEN /\ orders' = Append(orders, draft)
               /\ last' = Response("order", items, 400)
       ELSE IF Len(created) < Len(items)
          THEN /\ orders' = Append(orders, draft)
               /\ last' = Response("order", items, 500)
       ELSE /\ orders' = Append(orders,
                   [draft EXCEPT !.subtotal = subtotal,
                                 !.tax_amount = Quantize(subtotal * 10),
                                 !.total = Quantize(subtotal * 100 + subtotal * 10)])
            /\ last' = Response("order", items, 201)
    /\ UNCHANGED <<account_tables, expense_tables,
                   products, is_active, stock, movements, sales, returns, payments, proc>>

\* ------------------------------------------- ReceivePurchaseOrderView.post
\* The loop over items_data; the rows written by earlier lines stay written
\* when a later line raises.
RECURSIVE ReceiveItems(_, _, _, _, _)
ReceiveItems(st, ms, its, lines, k) ==
    IF k > Len(lines)
        THEN [stock |-> st, movements |-> ms, items |-> its, status |-> 200]
    ELSE LET item_id == lines[k].item_id
             received_qty == lines[k].received_quantity
         IN
         IF item_id \notin 1..Len(its)
             THEN [stock |-> st, movements |-> ms, items |-> its, status |-> 500]
         ELSE IF received_qty > its[item_id].quantity - its[item_id].received_quantity
             THEN [stock |-> st, movements |-> ms, items |-> its, status |-> 400]
         ELSE LET p == its[item_id].product
                  s0 == Stock_get_or_create(st, p)
              IN ReceiveItems(
                    [s0 EXCEPT ![p] = FExprAdd(s0[p], s0[p], received_qty)],
                    Append(ms, Movement(p, "IN", received_qty)),
                    [its EXCEPT ![item_id].received_quantity =
                        FExprAdd(its[item_id].received_quantity,
                                 its[item_id].received_quantity, received_qty)],
                    lines, k + 1)

all_items_received(its) ==
    \A k \in 1..Len(its) : its[k].received_quantity >= its[k].quantity

ReceiveLines == [item_id : 1..MaxItems, received_quantity : 1..MaxQty]

ReceivePurchaseOrderView_post(po_id, lines) ==
    /\ IF Len(lines) = 0
          THEN /\ last' = Response("receive", <<po_id, lines>>, 400)
               /\ UNCHANGED <<stock, movements, orders>>
       ELSE IF po_id \notin 1..Len(orders)
          THEN /\ last' = Response("receive", <<po_id, lines>>, 500)
               /\ UNCHANGED <<stock, movements, orders>>
       ELSE IF orders[po_id].status \in {"RECEIVED", "CANCELLED"}
          THEN /\ last' = Response("receive", <<po_id, lines>>, 400)
               /\ UNCHANGED <<stock, movements, orders>>
       ELSE LET r == ReceiveItems(stock, movements, orders[po_id].items, lines, 1)
            IN /\ stock' = r.stock
               /\ movements' = r.movements
               /\ orders' = [orders EXCEPT
                     ![po_id].items = r.items,
                     ![po_id].status =
                         IF r.status = 200 /\ all_items_received(r.items)
                            THEN "RECEIVED" ELSE @]
               /\ last' = Response("receive", <<po_id, lines>>, r.status)
    /\ UNCHANGED <<account_tables, expense_tables,
                   products, is_active, sales, returns, payments, proc>>

\* ------------------------------------------ PaymentCreateSerializer.validate
PaymentCreateSerializer_validate(sale, amount) ==
    ~ (amount > balance_due(sale))

\* --------------------------------------------- PaymentListCreateView.create
\* paid_amount and payment_status of the sale after the payment is added
ApplyPayment(sale, amount) ==
    LET paid == sale.paid_amount + amount IN
    [sale EXCEPT !.paid_amount = paid,
                 !.payment_status = IF paid >= sale.total THEN "PAID"
                                    ELSE IF paid > 0 THEN "PARTIAL"
                                    ELSE @]

PaymentListCreateView_create(sale, amount) ==
    /\ IF sale \notin 1..Len(sales)
          THEN /\ last' = Response("payment", <<sale, amount>>, 400)
               /\ UNCHANGED <<sales, payments>>
       ELSE IF ~ PaymentCreateSerializer_validate(sales[sale], amount)
          THEN /\ last' = Response("payment", <<sale, amount>>, 400)
               /\ UNCHANGED <<sales, payments>>
       ELSE /\ payments' = Append(payments, [sale |-> sale, amount |-> amount])
            /\ sales' = [sales EXCEPT ![sale] = ApplyPayment(@, amount)]
            /\ last' = Response("payment", <<sale, amount>>, 201)
    /\ UNCHANGED <<account_tables, expense_tables,
                   products, is_active, stock, movements, returns, orders, proc>>

\* ------------------------------------- SaleDetailView / SaleUpdateSerializer
\* PATCH of one writable field; invoice_number, subtotal and total are
\* read-only and the serializer recomputes nothing.  The sale is looked up
\* in BaseAPIView.get_queryset, which keeps the sales of the caller's shop.
SaleUpdateSerializer_update(sale, field, value) ==
    CASE field = "discount_amount" -> [sale EXCEPT !.discount_amount = value]
      [] field = "tax_amount"      -> [sale EXCEPT !.tax_amount = value]
      [] field = "paid_amount"     -> [sale EXCEPT !.paid_amount = value]
      [] field = "payment_status"  -> [sale EXCEPT !.payment_status = value]

SaleUpdates ==
    ({"discount_amount", "tax_amount", "paid_amount"} \X UpdateAmounts)
        \cup ({"payment_status"} \X PAYMENT_STATUS)

BaseAPIView_get_queryset ==
    {s \in 1..Len(sales) : sales[s].shop = request_user_shop}

SaleDetailView_update(pk, field, value) ==
    /\ IF pk \notin BaseAPIView_get_queryset
          THEN /\ last' = Response("update", <<pk, field, value>>, 404)
               /\ UNCHANGED sales
          ELSE /\ sales' = [sales EXCEPT ![pk] =
                               SaleUpdateSerializer_update(@, field, value)]
               /\ last' = Response("update", <<pk, field, value>>, 200)
    /\ UNCHANGED <<account_tables, expense_tables,
                   products, is_active, stock, movements, returns, orders, payments, proc>>

\* --------------------------------------------------------------- Next
Next ==
    \/ \E q \in 0..MaxInitialStock : ProductListCreateView_create(q) /\ WithinBounds'
    \/ \E items \in SeqsUpTo(SaleItems, MaxItems), n \in FreshInvoiceNumbers :
          SaleListCreateView_create(items, n) /\ WithinBounds'
    \/ \E p \in ProductIds, a \in AdjustmentValues :
          StockAdjustmentView_post(p, a) /\ WithinBounds'
    \/ \E s \in 1..MaxSales, items \in SeqsUpTo(SalesReturnItems, MaxReturnItems) :
          SalesReturnListCreateView_create(s, items) /\ WithinBounds'
    \/ \E items \in {<< >>} \cup SeqsUpTo(OrderItems, MaxItems) :
          /\ \E n \in FreshPoNumbers : PurchaseOrderListCreateView_create(items, n)
          /\ WithinBounds'
    \/ \E po \in 1..MaxOrders, lines \in {<< >>} \cup SeqsUpTo(ReceiveLines, MaxItems) :
          ReceivePurchaseOrderView_post(po, lines) /\ WithinBounds'

Spec == Init /\ [][Next]_vars

\* ------------------------------------------------------------ PaySpec
\* Sales, payments against them and updates through the sale detail endpoint.
PayNext ==
    \/ \E q \in 1..MaxInitialStock : ProductListCreateView_create(q) /\ WithinBounds'
    \/ \E items \in SeqsUpTo(SaleItems, MaxItems), n \in FreshInvoiceNumbers :
          SaleListCreateView_create(items, n) /\ WithinBounds'
    \/ \E s \in 1..MaxSales, a \in PaymentAmounts :
          PaymentListCreateView_create(s, a) /\ WithinBounds'
    \/ \E s \in 1..MaxSales, u \in SaleUpdates : SaleDetailView_update(s, u[1], u[2])

PaySpec == Init /\ [][PayNext]_vars

\* ---------------------------------------------------------- TotalsSpec
\* Sale creation over a wider range of prices, quantities and discounts,
\* from the state in which product 1 was created with TotalsStock units.
TotalsInit ==
    /\ proc = [i \in Procs |-> Idle]
    /\ products = (1 :> request_user_shop)
    /\ is_active = (1 :> TRUE)
    /\ users = << >>
    /\ shops = << >>
    /\ shop_users = << >>
    /\ expenses = << >>
    /\ expense_payments = << >>
    /\ stock = (1 :> TotalsStock)
    /\ movements = <<Movement(1, "IN", TotalsStock)>>
    /\ sales = << >>
    /\ returns = << >>
    /\ orders = << >>
    /\ payments = << >>
    /\ last = Response("product", TotalsStock, 201)

TotalsSaleItems == [product : {1}, quantity : 1..TotalsMaxQty,
                    unit_price : TotalsUnitPrices,
                    discount_percentage : TotalsDiscountPercentages]

\* only the first sale of the shop is explored
TotalsNext ==
    \E items \in SeqsUpTo(TotalsSaleItems, MaxItems) :
        /\ sales = << >>
        /\ \E n \in FreshInvoiceNumbers : SaleListCreateView_create(items, n)
        /\ WithinBounds'

TotalsSpec == TotalsInit /\ [][TotalsNext]_vars


\* ------------------------------------------------------------ ConcSpec
\* Requests that run at the same time.  Every handler runs in one database
\* transaction (@transaction.atomic) and is a sequence of SQL statements;
\* the statements of different requests interleave.  The database gives
\* READ COMMITTED: a statement reads the committed rows and the
\* transaction's own writes; an UPDATE of a row waits while another
\* transaction holds an uncommitted write of that row; the writes become
\* visible to others at commit.  The handlers catch their exceptions inside
\* the atomic block, so a request that fails still commits what it wrote.
\*
\* All requests are about product 1, which has ConcInitialStock units, and
\* purchase order 1, which has one line of ConcOrdered units of product 1.
ConcInit ==
    /\ products = (1 :> request_user_shop)
    /\ is_active = (1 :> TRUE)
    /\ users = << >>
    /\ shops = << >>
    /\ shop_users = << >>
    /\ expenses = << >>
    /\ expense_payments = << >>
    /\ stock = (1 :> ConcInitialStock)
    /\ movements = <<Movement(1, "IN", ConcInitialStock)>>
    /\ sales = << >>
    /\ returns = << >>
    /\ orders = << [po_number |-> 1, status |-> "DRAFT",
                    items |-> <<[product |-> 1, quantity |-> ConcOrdered,
                                 unit_price |-> 1000, received_quantity |-> 0]>>,
                    subtotal |-> ConcOrdered * 1000,
                    tax_amount |-> Quantize(ConcOrdered * 1000 * 10),
                    total |-> Quantize(ConcOrdered * 1000 * 110)] >>
    /\ payments = << >>
    /\ last = Response("none", << >>, 0)
    /\ proc = [i \in Procs |-> Idle]

\* the Stock row of p as a statement of request i reads it
VisibleStock(i, p) ==
    IF p \in DOMAIN proc[i].wStock THEN proc[i].wStock[p] ELSE stock[p]

\* the PurchaseOrderItem row as a statement of request i reads it
VisibleReceived(i, item_id) ==
    IF item_id \in DOMAIN proc[i].wRecv THEN proc[i].wRecv[item_id]
    ELSE orders[1].items[item_id].received_quantity

\* no other transaction holds an uncommitted write of the row
StockRowFree(i, p) == \A j \in Procs \ {i} : p \notin DOMAIN proc[j].wStock

ItemRowFree(i, item_id) == \A j \in Procs \ {i} : item_id \notin DOMAIN proc[j].wRecv

Unchanged_tables == UNCHANGED <<account_tables, expense_tables,
                                products, is_active, stock, movements, sales, returns,
                                orders, payments, last>>

\* ---- SaleListCreateView.create, statement by statement
ConcSaleItems == [product : {1}, quantity : 1..MaxQty,
                  unit_price : UnitPrices, discount_percentage : DiscountPercentages]

BeginSale(i, items) ==
    /\ proc[i].pc = "idle"
    /\ proc' = [proc EXCEPT ![i] = [Idle EXCEPT !.pc = "sale_validate",
                                       !.op = "sale", !.req = items, !.k = 1]]
    /\ Unchanged_tables

\* serializer.is_valid(): SaleItemCreateSerializer.validate of line k
SaleValidate(i) ==
    LET items == proc[i].req
        k == proc[i].k
    IN
    /\ proc[i].pc = "sale_validate"
    /\ proc' = [proc EXCEPT ![i] =
          IF ~ SaleItemCreateSerializer_validate(
                    (items[k].product :> VisibleStock(i, items[k].product)), items[k])
             THEN [@ EXCEPT !.pc = "commit", !.status = 400]
          ELSE IF k < Len(items) THEN [@ EXCEPT !.k = k + 1]
          ELSE [@ EXCEPT !.pc = "sale_save"]]
    /\ Unchanged_tables

\* serializer.save(): the Sale row and its SaleItem rows; request i was
\* given invoice number i
SaleSave(i) ==
    /\ proc[i].pc = "sale_save"
    /\ proc' = [proc EXCEPT ![i] =
          [@ EXCEPT !.pc = "sale_read", !.k = 1,
                    !.wSales = <<SaleCreateSerializer_create(proc[i].req, i)>>]]
    /\ Unchanged_tables

\* stock = item.product.stock
SaleReadStock(i) ==
    /\ proc[i].pc = "sale_read"
    /\ proc' = [proc EXCEPT ![i] =
          [@ EXCEPT !.pc = "sale_write",
                    !.mem = VisibleStock(i, proc[i].req[proc[i].k].product)]]
    /\ Unchanged_tables

\* stock.quantity -= item.quantity; raise if negative; stock.save()
SaleWriteStock(i) ==
    LET items == proc[i].req
        k == proc[i].k
        p == items[k].product
        q == proc[i].mem - items[k].quantity
    IN
    /\ proc[i].pc = "sale_write"
    /\ IF q < 0
          THEN proc' = [proc EXCEPT ![i] = [@ EXCEPT !.pc = "commit", !.status = 400]]
          ELSE /\ StockRowFree(i, p)
               /\ proc' = [proc EXCEPT ![i] =
                     [@ EXCEPT !.wStock = (p :> q) @@ @,
                               !.k = k + 1,
                               !.pc = IF k < Len(items) THEN "sale_read" ELSE "commit",
                               !.status = IF k < Len(items) THEN 0 ELSE 201]]
    /\ Unchanged_tables

\* ---- StockAdjustmentView.post, statement by statement
BeginAdjust(i, adjustment) ==
    /\ proc[i].pc = "idle"
    /\ adjustment # 0
    /\ proc' = [proc EXCEPT ![i] = [Idle EXCEPT !.pc = "adjust_get",
                                       !.op = "adjust", !.req = adjustment]]
    /\ Unchanged_tables

\* Stock.objects.get_or_create(product=product, ...)
AdjustGetStock(i) ==
    /\ proc[i].pc = "adjust_get"
    /\ proc' = [proc EXCEPT ![i] =
          [@ EXCEPT !.pc = "adjust_update", !.mem = VisibleStock(i, 1)]]
    /\ Unchanged_tables

\* stock.quantity = F('quantity') + adjustment; stock.save();
\* StockMovement.objects.create(movement_type='ADJ', ...)
AdjustUpdateStock(i) ==
    /\ proc[i].pc = "adjust_update"
    /\ StockRowFree(i, 1)
    /\ proc' = [proc EXCEPT ![i] =
          [@ EXCEPT !.pc = "commit", !.status = 200,
                    !.wStock = (1 :> FExprAdd(VisibleStock(i, 1), proc[i].mem,
                                              proc[i].req)) @@ @,
                    !.wMoves = Append(@, Movement(1, "ADJ", proc[i].req))]]
    /\ Unchanged_tables

\* ---- ReceivePurchaseOrderView.post, statement by statement, for a request
\* with one line {item_id: 1, received_quantity: qty} of purchase order 1
BeginReceive(i, qty) ==
    /\ proc[i].pc = "idle"
    /\ proc' = [proc EXCEPT ![i] =
          IF orders[1].status \in {"RECEIVED", "CANCELLED"}
             THEN [Idle EXCEPT !.pc = "commit", !.op = "receive", !.req = qty,
                               !.status = 400]
             ELSE [Idle EXCEPT !.pc = "receive_validate", !.op = "receive",
                               !.req = qty]]
    /\ Unchanged_tables

\* po_item = get_object_or_404(...); the check against the remaining quantity
ReceiveValidate(i) ==
    /\ proc[i].pc = "receive_validate"
    /\ proc' = [proc EXCEPT ![i] =
          IF proc[i].req > orders[1].items[1].quantity - VisibleReceived(i, 1)
             THEN [@ EXCEPT !.pc = "commit", !.status = 400]
             ELSE [@ EXCEPT !.pc = "receive_get"]]
    /\ Unchanged_tables

\* Stock.objects.get_or_create(product=po_item.product, ...)
ReceiveGetStock(i) ==
    /\ proc[i].pc = "receive_get"
    /\ proc' = [proc EXCEPT ![i] =
          [@ EXCEPT !.pc = "receive_stock", !.mem = VisibleStock(i, 1)]]
    /\ Unchanged_tables

\* stock.quantity = F('quantity') + received_qty; stock.save();
\* StockMovement.objects.create(movement_type='IN', ...)
ReceiveUpdateStock(i) ==
    /\ proc[i].pc = "receive_stock"
    /\ StockRowFree(i, 1)
    /\ proc' = [proc EXCEPT ![i] =
          [@ EXCEPT !.pc = "receive_item",
                    !.wStock = (1 :> FExprAdd(VisibleStock(i, 1), proc[i].mem,
                                              proc[i].req)) @@ @,
                    !.wMoves = Append(@, Movement(1, "IN", proc[i].req))]]
    /\ Unchanged_tables

\* po_item.received_quantity = F('received_quantity') + received_qty; save()
ReceiveUpdateItem(i) ==
    /\ proc[i].pc = "receive_item"
    /\ ItemRowFree(i, 1)
    /\ proc' = [proc EXCEPT ![i] =
          [@ EXCEPT !.pc = "receive_finish",
                    !.wRecv = (1 :> FExprAdd(VisibleReceived(i, 1),
                                             VisibleReceived(i, 1), proc[i].req)) @@ @]]
    /\ Unchanged_tables

\* purchase_order.refresh_from_db(); all_items_received; status = 'RECEIVED'
ReceiveFinish(i) ==
    /\ proc[i].pc = "receive_finish"
    /\ proc' = [proc EXCEPT ![i] =
          [@ EXCEPT !.pc = "commit", !.status = 200,
                    !.wStatus =
                        IF \A k \in 1..Len(orders[1].items) :
                              VisibleReceived(i, k) >= orders[1].items[k].quantity
                           THEN "RECEIVED" ELSE @]]
    /\ Unchanged_tables

\* ---- the end of the atomic block: the handler returned a Response, so the
\* transaction commits, whatever the status of the response
Commit(i) ==
    LET w == proc[i] IN
    /\ w.pc = "commit"
    /\ stock' = [p \in DOMAIN stock |->
                    IF p \in DOMAIN w.wStock THEN w.wStock[p] ELSE stock[p]]
    /\ sales' = sales \o w.wSales
    /\ movements' = movements \o w.wMoves
    /\ orders' = [orders EXCEPT
          ![1].items = [k \in DOMAIN @ |->
                           IF k \in DOMAIN w.wRecv
                              THEN [@[k] EXCEPT !.received_quantity = w.wRecv[k]]
                              ELSE @[k]],
          ![1].status = IF w.wStatus = "none" THEN @ ELSE w.wStatus]
    /\ proc' = [proc EXCEPT ![i] =
          [@ EXCEPT !.pc = "done", !.wStock = << >>, !.wSales = << >>,
                    !.wMoves = << >>, !.wRecv = << >>, !.wStatus = "none"]]
    /\ UNCHANGED <<account_tables, expense_tables,
                   products, is_active, returns, payments, last>>

ConcNext ==
    \/ \E i \in Procs, items \in SeqsUpTo(ConcSaleItems, MaxItems) : BeginSale(i, items)
    \/ \E i \in Procs : SaleValidate(i)
    \/ \E i \in Procs : SaleSave(i)
    \/ \E i \in Procs : SaleReadStock(i)
    \/ \E i \in Procs : SaleWriteStock(i)
    \/ \E i \in Procs, a \in AdjustmentValues : BeginAdjust(i, a)
    \/ \E i \in Procs : AdjustGetStock(i)
    \/ \E i \in Procs : AdjustUpdateStock(i)
    \/ \E i \in Procs, q \in 1..MaxQty : BeginReceive(i, q)
    \/ \E i \in Procs : ReceiveValidate(i)
    \/ \E i \in Procs : ReceiveGetStock(i)
    \/ \E i \in Procs : ReceiveUpdateStock(i)
    \/ \E i \in Procs : ReceiveUpdateItem(i)
    \/ \E i \in Procs : ReceiveFinish(i)
    \/ \E i \in Procs : Commit(i)

ConcSpec == ConcInit /\ [][ConcNext]_vars

\* --------------------------------------------------------- PayConcSpec
\* Payment requests that run at the same time against sale 1, which was
\* created for one unit of product 1 at ConcSaleTotal and has no payment yet.
\* The database is as described for ConcSpec.
PayConcInit ==
    /\ products = (1 :> request_user_shop)
    /\ is_active = (1 :> TRUE)
    /\ users = << >>
    /\ shops = << >>
    /\ shop_users = << >>
    /\ expenses = << >>
    /\ expense_payments = << >>
    /\ stock = (1 :> 0)
    /\ movements = <<Movement(1, "IN", 1)>>
    /\ sales = << SaleCreateSerializer_create(
                     <<[product |-> 1, quantity |-> 1, unit_price |-> ConcSaleTotal,
                        discount_percentage |-> 0]>>, 1) >>
    /\ returns = << >>
    /\ orders = << >>
    /\ payments = << >>
    /\ last = Response("sale", << >>, 201)
    /\ proc = [i \in Procs |-> Idle]

\* the Sale row as a statement of request i reads it
VisibleSale(i, s) ==
    IF s \in DOMAIN proc[i].wPaid THEN proc[i].wPaid[s] ELSE sales[s]

SaleRowFree(i, s) == \A j \in Procs \ {i} : s \notin DOMAIN proc[j].wPaid

\* ---- PaymentListCreateView.create, statement by statement
BeginPayment(i, amount) ==
    /\ proc[i].pc = "idle"
    /\ proc' = [proc EXCEPT ![i] = [Idle EXCEPT !.pc = "payment_validate",
                                       !.op = "payment", !.req = amount]]
    /\ Unchanged_tables

\* serializer.is_valid(): the sale field loads the Sale row, which stays the
\* instance the handler works on; PaymentCreateSerializer.validate
PaymentValidate(i) ==
    LET sale == VisibleSale(i, 1) IN
    /\ proc[i].pc = "payment_validate"
    /\ proc' = [proc EXCEPT ![i] =
          IF ~ PaymentCreateSerializer_validate(sale, proc[i].req)
             THEN [@ EXCEPT !.pc = "payment_commit", !.status = 400]
             ELSE [@ EXCEPT !.pc = "payment_save", !.mem = sale.paid_amount]]
    /\ Unchanged_tables

\* serializer.save(): the Payment row
PaymentSave(i) ==
    /\ proc[i].pc = "payment_save"
    /\ proc' = [proc EXCEPT ![i] =
          [@ EXCEPT !.pc = "payment_update",
                    !.wPays = <<[sale |-> 1, amount |-> proc[i].req]>>]]
    /\ Unchanged_tables

\* sale.paid_amount += payment.amount; payment_status; sale.save(), on the
\* instance loaded by the validation
PaymentUpdateSale(i) ==
    /\ proc[i].pc = "payment_update"
    /\ SaleRowFree(i, 1)
    /\ proc' = [proc EXCEPT ![i] =
          [@ EXCEPT !.pc = "payment_commit", !.status = 201,
                    !.wPaid = (1 :> ApplyPayment(
                                  [VisibleSale(i, 1) EXCEPT !.paid_amount = proc[i].mem],
                                  proc[i].req))]]
    /\ Unchanged_tables

\* the end of the atomic block of PaymentListCreateView.create
PaymentCommit(i) ==
    LET w == proc[i] IN
    /\ w.pc = "payment_commit"
    /\ payments' = payments \o w.wPays
    /\ sales' = [s \in DOMAIN sales |->
                    IF s \in DOMAIN w.wPaid THEN w.wPaid[s] ELSE sales[s]]
    /\ proc' = [proc EXCEPT ![i] =
          [@ EXCEPT !.pc = "done", !.wPays = << >>, !.wPaid = << >>]]
    /\ UNCHANGED <<account_tables, expense_tables,
                   products, is_active, stock, movements, returns, orders, last>>

PayConcNext ==
    \/ \E i \in Procs, a \in ConcPaymentAmounts : BeginPayment(i, a)
    \/ \E i \in Procs : PaymentValidate(i)
    \/ \E i \in Procs : PaymentSave(i)
    \/ \E i \in Procs : PaymentUpdateSale(i)
    \/ \E i \in Procs : PaymentCommit(i)

PayConcSpec == PayConcInit /\ [][PayConcNext]_vars

\* ----------------------------------------------------------- OrderSpec
\* Purchase orders: creation, the status endpoint, the generic detail
\* endpoint and receiving, with received quantities that need not be
\* positive, for orders of one line.

\* ------------------------------------- PurchaseOrderStatusUpdateView.patch
\* get_object_or_404 raises Http404, which the handler catches as Exception.
PurchaseOrderStatusUpdateView_patch(pk, new_status) ==
    /\ IF pk \notin 1..Len(orders)
          THEN /\ last' = Response("status", <<pk, new_status>>, 500)
               /\ UNCHANGED orders
       ELSE IF new_status = ""
          THEN /\ last' = Response("status", <<pk, new_status>>, 400)
               /\ UNCHANGED orders
       ELSE IF new_status \notin STATUS_CHOICES
          THEN /\ last' = Response("status", <<pk, new_status>>, 400)
               /\ UNCHANGED orders
       ELSE IF orders[pk].status = "RECEIVED"
          THEN /\ last' = Response("status", <<pk, new_status>>, 400)
               /\ UNCHANGED orders
       ELSE IF orders[pk].status = "CANCELLED"
          THEN /\ last' = Response("status", <<pk, new_status>>, 400)
               /\ UNCHANGED orders
       ELSE /\ orders' = [orders EXCEPT ![pk].status = new_status]
            /\ last' = Response("status", <<pk, new_status>>, 200)
    /\ UNCHANGED <<account_tables, expense_tables,
                   products, is_active, stock, movements, sales, returns, payments, proc>>

\* ------------------- PurchaseOrderDetailView / PurchaseOrderDetailSerializer
\* PATCH {"status": ...} through RetrieveUpdateDestroyAPIView: status is a
\* writable choice field of the serializer and is saved as given.
PurchaseOrderDetailSerializer_update(order, new_status) ==
    [order EXCEPT !.status = new_status]

PurchaseOrderDetailView_update(pk, new_status) ==
    /\ IF pk \notin 1..Len(orders)
          THEN /\ last' = Response("order_update", <<pk, new_status>>, 404)
               /\ UNCHANGED orders
       ELSE IF new_status \notin STATUS_CHOICES
          THEN /\ last' = Response("order_update", <<pk, new_status>>, 400)
               /\ UNCHANGED orders
       ELSE /\ orders' = [orders EXCEPT ![pk] =
                             PurchaseOrderDetailSerializer_update(@, new_status)]
            /\ last' = Response("order_update", <<pk, new_status>>, 200)
    /\ UNCHANGED <<account_tables, expense_tables,
                   products, is_active, stock, movements, sales, returns, payments, proc>>

OrderReceiveLines == [item_id : 1..MaxItems, received_quantity : ReceivedQuantities]

OrderNext ==
    \/ \E q \in 1..MaxInitialStock : ProductListCreateView_create(q) /\ WithinBounds'
    \/ \E items \in {<< >>} \cup SeqsUpTo(OrderItems, 1) :
          /\ \E n \in FreshPoNumbers : PurchaseOrderListCreateView_create(items, n)
          /\ WithinBounds'
    \/ \E po \in 1..MaxOrders, s \in StatusInputs :
          PurchaseOrderStatusUpdateView_patch(po, s)
    \/ \E po \in 1..MaxOrders, s \in StatusInputs :
          PurchaseOrderDetailView_update(po, s)
    \/ \E po \in 1..MaxOrders,
          lines \in {<< >>} \cup SeqsUpTo(OrderReceiveLines, MaxItems) :
          ReceivePurchaseOrderView_post(po, lines) /\ WithinBounds'

OrderSpec == Init /\ [][OrderNext]_vars

\* ---------------------------------------------------------- InvoiceSpec
\* Sale creations of one line each, with any number returned by the invoice
\* number generator, up to MaxInvoiceSales stored sales, from the state in
\* which product 1 was created with InvoiceStock units.
InvoiceInit ==
    /\ proc = [i \in Procs |-> Idle]
    /\ products = (1 :> request_user_shop)
    /\ is_active = (1 :> TRUE)
    /\ users = << >>
    /\ shops = << >>
    /\ shop_users = << >>
    /\ expenses = << >>
    /\ expense_payments = << >>
    /\ stock = (1 :> InvoiceStock)
    /\ movements = <<Movement(1, "IN", InvoiceStock)>>
    /\ sales = << >>
    /\ returns = << >>
    /\ orders = << >>
    /\ payments = << >>
    /\ last = Response("product", InvoiceStock, 201)

InvoiceSaleItems == [product : {1}, quantity : 1..MaxQty,
                     unit_price : UnitPrices, discount_percentage : DiscountPercentages]

InvoiceNext ==
    \E items \in SeqsUpTo(InvoiceSaleItems, 1), n \in generate_invoice_number :
        SaleListCreateView_create(items, n) /\ Len(sales') <= MaxInvoiceSales

InvoiceSpec == InvoiceInit /\ [][InvoiceNext]_vars

\* ------------------------------------------------------------- ShopSpec
\* Requests of a user of shop A in a database that also holds rows of shop
\* B: product 2, created with 2 units, B's sale 1 of one unit of it, and B's
\* pending return 1 of that unit.
ShopInit ==
    /\ proc = [i \in Procs |-> Idle]
    /\ products = (1 :> request_user_shop) @@ (2 :> "B")
    /\ is_active = (1 :> TRUE) @@ (2 :> TRUE)
    /\ users = << >>
    /\ shops = << >>
    /\ shop_users = << >>
    /\ expenses = << >>
    /\ expense_payments = << >>
    /\ stock = (1 :> 1) @@ (2 :> 2)
    /\ movements = <<Movement(1, "IN", 1), Movement(2, "IN", 2)>>
    /\ sales = << [SaleCreateSerializer_create(
                      <<[product |-> 2, quantity |-> 1, unit_price |-> 1000,
                         discount_percentage |-> 0]>>, 1)
                   EXCEPT !.shop = "B"] >>
    /\ returns = << [shop |-> "B", sale |-> 1,
                     items |-> <<[sale_item |-> <<1, 1>>, quantity |-> 1]>>,
                     status |-> "PENDING"] >>
    /\ orders = << >>
    /\ payments = << >>
    /\ last = Response("none", << >>, 0)

\* ------------------------------------------------ SalesReturnApproveView.post
\* get_object_or_404(SalesReturn, pk=pk) raises Http404, which the handler
\* catches as Exception and answers with 400.
SalesReturnApproveView_post(pk) ==
    /\ IF pk \notin 1..Len(returns)
          THEN /\ last' = Response("approve", pk, 400)
               /\ UNCHANGED returns
       ELSE IF returns[pk].status # "PENDING"
          THEN /\ last' = Response("approve", pk, 400)
               /\ UNCHANGED returns
       ELSE /\ returns' = [returns EXCEPT ![pk].status = "APPROVED"]
            /\ last' = Response("approve", pk, 200)
    /\ UNCHANGED <<account_tables, expense_tables,
                   products, is_active, stock, movements, sales, orders, payments, proc>>

ShopSaleItems == [product : 1..2, quantity : 1..MaxQty,
                  unit_price : UnitPrices, discount_percentage : DiscountPercentages]

ShopNext ==
    \/ \E items \in SeqsUpTo(ShopSaleItems, 1), n \in FreshInvoiceNumbers :
          SaleListCreateView_create(items, n) /\ Len(sales') <= MaxShopSales
    \/ \E s \in 1..MaxShopSales, a \in ConcPaymentAmounts :
          PaymentListCreateView_create(s, a) /\ Len(payments') <= MaxShopPayments
    \/ \E s \in 1..MaxShopSales, v \in UpdateAmounts :
          SaleDetailView_update(s, "paid_amount", v)
    \/ \E p \in 1..2, a \in {0, 1} :
          StockAdjustmentView_post(p, a) /\ Len(movements') <= MaxShopMovements
    \/ \E r \in 1..MaxReturns : SalesReturnApproveView_post(r)

ShopSpec == ShopInit /\ [][ShopNext]_vars

\* ----------------------------------------------------------- ReturnSpec
\* One sale of one line and the sales returns against it, from the state in
\* which product 1 was created with ReturnStock units.
ReturnInit ==
    /\ proc = [i \in Procs |-> Idle]
    /\ products = (1 :> request_user_shop)
    /\ is_active = (1 :> TRUE)
    /\ users = << >>
    /\ shops = << >>
    /\ shop_users = << >>
    /\ expenses = << >>
    /\ expense_payments = << >>
    /\ stock = (1 :> ReturnStock)
    /\ movements = <<Movement(1, "IN", ReturnStock)>>
    /\ sales = << >>
    /\ returns = << >>
    /\ orders = << >>
    /\ payments = << >>
    /\ last = Response("product", ReturnStock, 201)

ReturnNext ==
    \/ \E items \in SeqsUpTo(InvoiceSaleItems, 1), n \in FreshInvoiceNumbers :
          SaleListCreateView_create(items, n) /\ Len(sales') <= MaxSales
    \/ \E s \in 1..MaxSales, items \in SeqsUpTo(SalesReturnItems, MaxReturnLines) :
          SalesReturnListCreateView_create(s, items) /\ Len(returns') <= MaxReturnRows
    \/ \E r \in 1..MaxReturnRows : SalesReturnApproveView_post(r)

ReturnSpec == ReturnInit /\ [][ReturnNext]_vars

\* ------------------------------------------------------ OrderTotalsSpec
\* Purchase orders of up to MaxItems lines, which may name a product that
\* does not exist, followed by status updates and receipts.
OrderTotalsItems == [product : 1..(NumProducts + 1), quantity : 1..MaxQty,
                     unit_price : OrderTotalsUnitPrices]

OrderTotalsLines == [item_id : {1}, received_quantity : 1..MaxQty]

OrderTotalsNext ==
    \/ ProductListCreateView_create(1) /\ WithinBounds'
    \/ \E items \in SeqsUpTo(OrderTotalsItems, MaxItems) :
          /\ \E n \in FreshPoNumbers : PurchaseOrderListCreateView_create(items, n)
          /\ WithinBounds'
    \/ \E po \in 1..MaxOrders, s \in STATUS_CHOICES :
          PurchaseOrderStatusUpdateView_patch(po, s)
    \/ \E po \in 1..MaxOrders, lines \in SeqsUpTo(OrderTotalsLines, 1) :
          ReceivePurchaseOrderView_post(po, lines) /\ WithinBounds'

OrderTotalsSpec == Init /\ [][OrderTotalsNext]_vars

\* ----------------------------------------------------------- DestroySpec
\* DELETE /api/products/<pk> next to stock adjustments.  The view is not
\* atomic: it looks for StockMovement rows of the product in one statement
\* and saves or deletes the product in a later one, and an adjustment of
\* another request can commit in between.  Product 1 was created without
\* initial stock, so it starts with no Stock row and no movement.
MaxDestroyMovements == 3

DestroyAdjustments == {-1, 0, 1}

DestroyInit ==
    /\ proc = [i \in Procs |-> Idle]
    /\ products = (1 :> request_user_shop)
    /\ is_active = (1 :> TRUE)
    /\ users = << >>
    /\ shops = << >>
    /\ shop_users = << >>
    /\ expenses = << >>
    /\ expense_payments = << >>
    /\ stock = << >>
    /\ movements = << >>
    /\ sales = << >>
    /\ returns = << >>
    /\ orders = << >>
    /\ payments = << >>
    /\ last = Response("product", 0, 201)

\* StockMovement.objects.filter(product=instance).exists()
StockMovement_exists(pk) == \E k \in 1..Len(movements) : movements[k].product = pk

\* self.get_object() and the exists() query; Http404 is caught by the
\* handler's except clause and answered with 500
ProductDetailView_get_object(i, pk) ==
    /\ proc[i].pc = "idle"
    /\ IF pk \notin ShopProducts
          THEN /\ last' = Response("destroy", pk, 500)
               /\ UNCHANGED proc
          ELSE /\ proc' = [proc EXCEPT ![i] = [Idle EXCEPT
                              !.pc = "destroy", !.req = pk,
                              !.mem = IF StockMovement_exists(pk) THEN 1 ELSE 0]]
               /\ UNCHANGED last
    /\ UNCHANGED <<account_tables, expense_tables,
                   products, is_active, stock, movements, sales, returns,
                   orders, payments>>

\* the rows of f other than the one of pk
WithoutRow(f, pk) == [q \in DOMAIN f \ {pk} |-> f[q]]

\* the movements left once the ones of product pk are deleted
WithoutProduct(ms, pk) == SelectSeq(ms, LAMBDA m : m.product # pk)

\* The rest of destroy.  With movements seen, instance.save() writes the
\* product with is_active False (an UPDATE, or an INSERT when the row is
\* gone); otherwise instance.delete() deletes the product and, by
\* on_delete=CASCADE, the Stock and StockMovement rows that refer to it when
\* the delete runs.  No sale or order item refers to the product here.
ProductDetailView_destroy(i) ==
    LET pk == proc[i].req IN
    /\ proc[i].pc = "destroy"
    /\ IF proc[i].mem = 1
          THEN /\ products' = (pk :> request_user_shop) @@ products
               /\ is_active' = (pk :> FALSE) @@ is_active
               /\ UNCHANGED <<stock, movements>>
          ELSE /\ products' = WithoutRow(products, pk)
               /\ is_active' = WithoutRow(is_active, pk)
               /\ stock' = WithoutRow(stock, pk)
               /\ movements' = WithoutProduct(movements, pk)
    /\ last' = Response("destroy", pk, 200)
    /\ proc' = [proc EXCEPT ![i] = Idle]
    /\ UNCHANGED <<account_tables, expense_tables, sales, returns, orders,
                   payments>>

DestroyNext ==
    \/ \E a \in DestroyAdjustments :
           /\ Len(movements) < MaxDestroyMovements
           /\ StockAdjustmentView_post(1, a)
    \/ \E i \in Procs, pk \in 1..NumProducts + 1 : ProductDetailView_get_object(i, pk)
    \/ \E i \in Procs : ProductDetailView_destroy(i)

DestroySpec == DestroyInit /\ [][DestroyNext]_vars

\* ---------------------------------------------------------- SequenceSpec
\* generate_invoice_number with its text: an invoice number is a sequence of
\* characters, and the lookup of the last number, the split at "-" and the
\* formatting of the new number are computed on the characters.
MaxSequenceSales == 3

\* datetime.datetime.now(): every request of the history is made on this day
Today == [year |-> 2026, month |-> 11, day |-> 2]

\* shop.code if hasattr(shop, 'code') else 'INV': Shop has no code field
shop_prefix == <<"I", "N", "V">>

\* random.choices(string.ascii_uppercase + string.digits, k=4)
RandomChars == {<<"A", "B", "C", "D">>, <<"1", "2", "3", "4">>}

\* int(time.time() * 1000) % 10000
Timestamps == {7, 4321}

DigitChars == <<"0", "1", "2", "3", "4", "5", "6", "7", "8", "9">>

\* the characters of the model in the order the database compares them
Alphabet == <<"-">> \o DigitChars \o <<"A", "B", "C", "D", "I", "N", "V">>

Ord(c) == CHOOSE k \in 1..Len(Alphabet) : Alphabet[k] = c

\* f"{n:0{w}d}" for a number of at most w digits
RECURSIVE ZeroPadded(_, _)
ZeroPadded(n, w) ==
    IF w = 0 THEN << >>
    ELSE ZeroPadded(n \div 10, w - 1) \o <<DigitChars[(n % 10) + 1]>>

\* f"{n}"
RECURSIVE Decimal(_)
Decimal(n) ==
    IF n < 10 THEN <<DigitChars[n + 1]>>
    ELSE Decimal(n \div 10) \o <<DigitChars[(n % 10) + 1]>>

\* str.startswith
startswith(s, prefix) ==
    Len(s) >= Len(prefix) /\ SubSeq(s, 1, Len(prefix)) = prefix

\* s < t as the database orders strings
RECURSIVE StringLess(_, _)
StringLess(s, t) ==
    IF Len(t) = 0 THEN FALSE
    ELSE IF Len(s) = 0 THEN TRUE
    ELSE IF Head(s) # Head(t) THEN Ord(Head(s)) < Ord(Head(t))
    ELSE StringLess(Tail(s), Tail(t))

\* str.split('-')
RECURSIVE split(_)
split(s) ==
    IF \A k \in 1..Len(s) : s[k] # "-" THEN <<s>>
    ELSE LET k == CHOOSE j \in 1..Len(s) :
                      s[j] = "-" /\ \A h \in 1..(j - 1) : s[h] # "-"
         IN  <<SubSeq(s, 1, k - 1)>> \o split(SubSeq(s, k + 1, Len(s)))

\* int(s) succeeds on a string of digits and raises ValueError otherwise
IsNumber(s) ==
    Len(s) > 0 /\ \A k \in 1..Len(s) : \E d \in 1..10 : DigitChars[d] = s[k]

RECURSIVE int(_)
int(s) ==
    IF Len(s) = 0 THEN 0
    ELSE 10 * int(SubSeq(s, 1, Len(s) - 1)) + (Ord(s[Len(s)]) - 2)

\* prefix = f"{shop_prefix}-{year}-{month}"
InvoicePrefix ==
    shop_prefix \o <<"-">> \o ZeroPadded(Today.year, 4) \o <<"-">>
    \o ZeroPadded(Today.month, 2)

\* Sale.objects.filter(shop=shop, invoice_number__startswith=prefix)
\*     .aggregate(Max('invoice_number')): the numbers to take the maximum of
InvoicesWithPrefix ==
    {sales[s].invoice_number : s \in {t \in 1..Len(sales) :
        /\ sales[t].shop = request_user_shop
        /\ startswith(sales[t].invoice_number, InvoicePrefix)}}

\* the sequence number the generator puts into the new number
InvoiceSequence ==
    IF InvoicesWithPrefix = {} THEN 1
    ELSE LET last_invoice == CHOOSE n \in InvoicesWithPrefix :
                                 \A m \in InvoicesWithPrefix \ {n} : StringLess(m, n)
             parts == split(last_invoice)
         IN  IF Len(parts) >= 4 /\ IsNumber(parts[4]) THEN int(parts[4]) + 1
             ELSE 1

\* f"{shop_prefix}-{year}{month}{day}-{sequence:05d}-{random_chars}{timestamp}"
SaleListCreateView_generate_invoice_number(random_chars, timestamp) ==
    shop_prefix \o <<"-">>
    \o ZeroPadded(Today.year, 4) \o ZeroPadded(Today.month, 2)
    \o ZeroPadded(Today.day, 2) \o <<"-">>
    \o ZeroPadded(InvoiceSequence, 5) \o <<"-">>
    \o random_chars \o Decimal(timestamp)

SequenceNext ==
    \E items \in SeqsUpTo(InvoiceSaleItems, 1),
       random_chars \in RandomChars, timestamp \in Timestamps :
        /\ SaleListCreateView_create(items,
               SaleListCreateView_generate_invoice_number(random_chars, timestamp))
        /\ Len(sales') <= MaxSequenceSales

SequenceSpec == InvoiceInit /\ [][SequenceNext]_vars

\* ---------------------------------------------------------- PoNumberSpec
\* Purchase order creations with the clock: a request is served in the
\* second in which the latest order was created or in the next one.
MaxPoOrders == 3

\* the second of the latest order; the first request arrives in second 1
RECURSIVE LatestSecond(_)
LatestSecond(k) ==
    IF k = 0 THEN 1
    ELSE LET rest == LatestSecond(k - 1)
         IN  IF orders[k].po_number > rest THEN orders[k].po_number ELSE rest

\* timezone.now(), to the second
ClockSeconds == {LatestSecond(Len(orders)), LatestSecond(Len(orders)) + 1}

PoNumberNext ==
    \/ \E q \in 1..MaxInitialStock : ProductListCreateView_create(q)
    \/ \E items \in {<< >>} \cup SeqsUpTo(OrderItems, 1), now \in ClockSeconds :
          /\ PurchaseOrderListCreateView_create(items, now)
          /\ Len(orders') <= MaxPoOrders

PoNumberSpec == Init /\ [][PoNumberNext]_vars

\* ----------------------------------------------------------- ExpenseSpec
\* The expense app: expenses of the caller's shop, their updates and status
\* updates, and the payments against them.  Amounts are in cents.
MaxExpenses == 2

ExpenseAmounts == {0, 1000}

ExpenseTaxAmounts == {0, 100}

ExpensePaymentAmounts == {500, 1000, 1100}

Expense_STATUS_CHOICES == {"PENDING", "PAID", "CANCELLED", "PARTIALLY_PAID"}

ExpenseStatusInputs == Expense_STATUS_CHOICES \cup {"SETTLED"}

\* Expense.save(): the total is recomputed on every save
Expense_save(expense) ==
    [expense EXCEPT !.total_amount = expense.amount + expense.tax_amount]

\* Expense.objects.filter(shop=request.user.shop)
ShopExpenses == {e \in 1..Len(expenses) : expenses[e].shop = request_user_shop}

\* expense.payments.aggregate(total=Sum('amount'))['total'] or 0
RECURSIVE ExpensePaymentsSum(_, _, _)
ExpensePaymentsSum(ps, e, k) ==
    IF k = 0 THEN 0
    ELSE (IF ps[k].expense = e THEN ps[k].amount ELSE 0)
         + ExpensePaymentsSum(ps, e, k - 1)

\* ExpenseListCreateView.create: the number is made of the id of the shop's
\* last expense plus one; status and paid_amount take their defaults
ExpenseListCreateView_create(amount, tax_amount) ==
    /\ expenses' = Append(expenses, Expense_save(
           [shop |-> request_user_shop, expense_number |-> Len(expenses) + 1,
            amount |-> amount, tax_amount |-> tax_amount, total_amount |-> 0,
            status |-> "PENDING", paid_amount |-> 0]))
    /\ last' = Response("expense", <<amount, tax_amount>>, 201)
    /\ UNCHANGED <<account_tables, expense_payments, products, is_active, stock,
                   movements, sales, returns, orders, payments, proc>>

\* the fields of ExpenseUpdateSerializer the model follows
ExpenseUpdates ==
    [field : {"amount"}, value : ExpenseAmounts]
    \cup [field : {"tax_amount"}, value : ExpenseTaxAmounts]
    \cup [field : {"status"}, value : ExpenseStatusInputs]

\* PATCH /api/expenses/<pk>: ExpenseUpdateSerializer, then Expense.save()
ExpenseDetailView_update(pk, field, value) ==
    /\ IF pk \notin ShopExpenses
          THEN /\ last' = Response("expense_update", <<pk, field, value>>, 404)
               /\ UNCHANGED expenses
       ELSE IF field = "status" /\ value \notin Expense_STATUS_CHOICES
          THEN /\ last' = Response("expense_update", <<pk, field, value>>, 400)
               /\ UNCHANGED expenses
       ELSE /\ expenses' = [expenses EXCEPT ![pk] =
                   Expense_save([expenses[pk] EXCEPT ![field] = value])]
            /\ last' = Response("expense_update", <<pk, field, value>>, 200)
    /\ UNCHANGED <<account_tables, expense_payments, products, is_active, stock,
                   movements, sales, returns, orders, payments, proc>>

\* PATCH /api/expenses/<pk>/status: ExpenseStatusSerializer, then Expense.save()
ExpenseStatusUpdateView_update(pk, new_status) ==
    /\ IF pk \notin ShopExpenses
          THEN /\ last' = Response("expense_status", <<pk, new_status>>, 404)
               /\ UNCHANGED expenses
       ELSE IF new_status \notin Expense_STATUS_CHOICES
          THEN /\ last' = Response("expense_status", <<pk, new_status>>, 400)
               /\ UNCHANGED expenses
       ELSE /\ expenses' = [expenses EXCEPT ![pk] =
                   Expense_save([expenses[pk] EXCEPT !.status = new_status])]
            /\ last' = Response("expense_status", <<pk, new_status>>, 200)
    /\ UNCHANGED <<account_tables, expense_payments, products, is_active, stock,
                   movements, sales, returns, orders, payments, proc>>

\* ExpensePaymentCreateSerializer.validate
ExpensePaymentCreateSerializer_validate(expense, amount) ==
    ~ (expense.paid_amount + amount > expense.total_amount)

\* the fields of the ExpensePayment model
ExpensePayment_fields ==
    {"id", "created_at", "modified_at", "created_by", "modified_by", "expense",
     "payment_method", "amount", "payment_date", "reference_number", "notes",
     "attachment_url"}

\* the keys of serializer.validated_data when the view calls save(): the
\* fields of ExpensePaymentCreateSerializer and the three the view adds
ExpensePayment_validated_data ==
    {"expense", "payment_method", "amount", "payment_date", "reference_number",
     "notes", "attachment_url"} \cup {"shop", "created_by", "modified_by"}

\* ExpensePayment.save(): after the INSERT, the expense takes the sum of its
\* payments as paid_amount and the status that follows from it
ExpensePayment_save(es, ps, e) ==
    LET total_paid == ExpensePaymentsSum(ps, e, Len(ps))
        paid == [es[e] EXCEPT !.paid_amount = total_paid]
    IN  [es EXCEPT ![e] = Expense_save(
            IF total_paid >= paid.total_amount
                THEN [paid EXCEPT !.status = "PAID"]
            ELSE IF total_paid > 0
                THEN [paid EXCEPT !.status = "PARTIALLY_PAID"]
            ELSE paid)]

\* ExpensePaymentCreateView.create.  Http404 and the TypeError that
\* ExpensePayment.objects.create(**validated_data) raises for a key that is
\* no field of the model are caught by the handler's except Exception; the
\* atomic block is left by the exception, so nothing is written.
ExpensePaymentCreateView_create(expense_id, amount) ==
    /\ IF expense_id \notin ShopExpenses
          THEN /\ last' = Response("expense_payment", <<expense_id, amount>>, 500)
               /\ UNCHANGED expense_tables
       ELSE IF ~ ExpensePaymentCreateSerializer_validate(expenses[expense_id], amount)
          THEN /\ last' = Response("expense_payment", <<expense_id, amount>>, 400)
               /\ UNCHANGED expense_tables
       ELSE IF ~ (ExpensePayment_validated_data \subseteq ExpensePayment_fields)
          THEN /\ last' = Response("expense_payment", <<expense_id, amount>>, 500)
               /\ UNCHANGED expense_tables
       ELSE LET ps == Append(expense_payments,
                             [expense |-> expense_id, amount |-> amount])
            IN /\ expense_payments' = ps
               /\ expenses' = ExpensePayment_save(expenses, ps, expense_id)
               /\ last' = Response("expense_payment", <<expense_id, amount>>, 201)
    /\ UNCHANGED <<account_tables, products, is_active, stock, movements, sales,
                   returns, orders, payments, proc>>

ExpenseNext ==
    \/ \E amount \in ExpenseAmounts, tax_amount \in ExpenseTaxAmounts :
          /\ Len(expenses) < MaxExpenses
          /\ ExpenseListCreateView_create(amount, tax_amount)
    \/ \E pk \in 1..MaxExpenses, u \in ExpenseUpdates :
          ExpenseDetailView_update(pk, u.field, u.value)
    \/ \E pk \in 1..MaxExpenses, s \in ExpenseStatusInputs :
          ExpenseStatusUpdateView_update(pk, s)
    \/ \E e \in 1..MaxExpenses, amount \in ExpensePaymentAmounts :
          ExpensePaymentCreateView_create(e, amount)

ExpenseSpec == Init /\ [][ExpenseNext]_vars

\* ---------------------------------------------------------- RegisterSpec
\* POST /api/register.  The phone lookup and the sending of the verification
\* message go to an outside service; each of them can succeed or fail.
MaxUsers == 2

Usernames == {"amina", "bello"}

Phones == {"+2348000000001", "+2348000000002"}

\* the UniqueValidator of the username field (AbstractUser.username)
username_exists(username) ==
    \E u \in 1..Len(users) : users[u].username = username

\* the UniqueValidator of the phone field (User.phone, unique=True)
phone_exists(phone) == \E u \in 1..Len(users) : users[u].phone = phone

\* serializer.is_valid(): the unique validators, validate_phone with the
\* outcome of the lookup, and validate with the two passwords
UserRegistrationSerializer_is_valid(data) ==
    /\ ~ username_exists(data.username)
    /\ ~ phone_exists(data.phone)
    /\ data.phone_lookup
    /\ data.password = data.confirm_password

RegistrationData ==
    [username : Usernames, phone : Phones, phone_lookup : BOOLEAN,
     password : {"secret"}, confirm_password : {"secret", "secrte"}]

\* UserRegistrationView.create.  serializer.save() runs
\* UserRegistrationSerializer.create, whose transaction stores the user, the
\* shop and the ShopUser row and commits; the message is sent after that,
\* and a failure to send it is answered with 500.
UserRegistrationView_create(data, message_sent) ==
    /\ IF ~ UserRegistrationSerializer_is_valid(data)
          THEN /\ last' = Response("register", data, 400)
               /\ UNCHANGED account_tables
          ELSE /\ users' = Append(users, [username |-> data.username,
                                          phone |-> data.phone, role |-> "admin"])
               /\ shops' = Append(shops, [created_by |-> Len(users) + 1])
               /\ shop_users' = Append(shop_users, [user |-> Len(users) + 1,
                                                    shop |-> Len(shops) + 1])
               /\ last' = Response("register", data,
                                   IF message_sent THEN 201 ELSE 500)
    /\ UNCHANGED <<expense_tables, products, is_active, stock, movements, sales,
                   returns, orders, payments, proc>>

RegisterNext ==
    \E data \in RegistrationData, message_sent \in BOOLEAN :
        /\ UserRegistrationView_create(data, message_sent)
        /\ Len(users') <= MaxUsers

RegisterSpec == Init /\ [][RegisterNext]_vars

\* ===================================================================
\* Claims checked under Spec
\* ===================================================================

\* C1: for every product, Stock.quantity equals the sum of the signed
\* quantities of the product's StockMovement rows (IN/RET positive, OUT
\* negative, ADJ as signed).
C1_StockEqualsMovementSum ==
    \A p \in DOMAIN stock : stock[p] = MovementSum(movements, p, Len(movements))

\* C2: every persisted Stock.quantity is >= 0 after any sequence of
\* committed operations.
C2_StockNeverNegative ==
    \A p \in DOMAIN stock : stock[p] >= 0

\* C3: a sale creation that does not succeed leaves no Sale row, no SaleItem
\* row and no stock decrement persisted.
C3_SaleAllOrNothing ==
    [][(last'.op = "sale" /\ last'.status # 201)
          => UNCHANGED <<sales, stock, movements>>]_vars

\* C4: a sale with a line whose quantity exceeds the on-hand stock of its
\* product is rejected and leaves Stock, StockMovement, Sale and SaleItem
\* unchanged; a sale for exactly the on-hand quantity succeeds and leaves
\* stock 0 (so that every following sale of a positive quantity of that
\* product is rejected with stock still 0).
SaleExceedsStock(items) ==
    \E k \in 1..Len(items) :
        /\ items[k].product \in DOMAIN stock
        /\ items[k].quantity > stock[items[k].product]

SaleForExactlyOnHand(items) ==
    /\ Len(items) = 1
    /\ items[1].product \in DOMAIN stock
    /\ items[1].quantity = stock[items[1].product]

C4_InsufficientStockRejected ==
    [][last'.op = "sale" =>
         /\ SaleExceedsStock(last'.req) =>
               /\ last'.status # 201
               /\ UNCHANGED <<stock, movements, sales>>
         /\ SaleForExactlyOnHand(last'.req) =>
               /\ last'.status = 201
               /\ stock'[last'.req[1].product] = 0
               /\ Len(sales') = Len(sales) + 1
               /\ sales'[Len(sales')].items = last'.req
      ]_vars

\* a sale emptied the stock of a product and a following sale of a positive
\* quantity of it was rejected, the stock still being 0
C4_Witness ==
    /\ last.op = "sale" /\ last.status = 400
    /\ Len(sales) = 1
    /\ \E k \in 1..Len(last.req) :
          /\ last.req[k].product \in DOMAIN stock
          /\ stock[last.req[k].product] = 0
          /\ last.req[k].quantity > 0
          /\ sales[1].items[1].product = last.req[k].product


\* ===================================================================
\* Claims checked under PaySpec
\* ===================================================================

\* C8: for every persisted Sale, total = subtotal + tax_amount -
\* discount_amount, after sale creation and after any update through the
\* sale detail endpoint.
C8_SaleTotalConsistent ==
    \A s \in 1..Len(sales) :
        sales[s].total
            = sales[s].subtotal + sales[s].tax_amount - sales[s].discount_amount

\* C10: a payment whose amount is not strictly positive or exceeds the
\* sale's current balance_due is rejected: no Payment row is written and the
\* sale's paid_amount and payment_status stay as they were.
C10_InvalidPaymentRejected ==
    [][(/\ last'.op = "payment"
        /\ last'.req[1] \in 1..Len(sales)
        /\ \/ last'.req[2] <= 0
           \/ last'.req[2] > balance_due(sales[last'.req[1]]))
          => (last'.status # 201 /\ UNCHANGED <<payments, sales>>)]_vars

\* C12: in every state reached by sale creation, payments and sale updates,
\* payment_status is determined by the amounts: PAID when paid_amount >=
\* total, PARTIAL when 0 < paid_amount < total, PENDING when paid_amount = 0.
C12_StatusFunctionOfAmounts ==
    \A s \in 1..Len(sales) :
        /\ sales[s].paid_amount >= sales[s].total
              => sales[s].payment_status = "PAID"
        /\ (0 < sales[s].paid_amount /\ sales[s].paid_amount < sales[s].total)
              => sales[s].payment_status = "PARTIAL"
        /\ (sales[s].paid_amount = 0 /\ sales[s].total > 0)
              => sales[s].payment_status = "PENDING"

\* ===================================================================
\* Claims checked under TotalsSpec
\* ===================================================================

ItemTotals(sale) ==
    SumSeq([k \in 1..Len(sale.items) |-> SaleItem_total(sale.items[k])],
           Len(sale.items))

ScenarioItems ==
    << [product |-> 1, quantity |-> 3, unit_price |-> 1000, discount_percentage |-> 0],
       [product |-> 1, quantity |-> 1, unit_price |-> 5000, discount_percentage |-> 10] >>

AllDone == \A i \in Procs : proc[i].pc = "done"

Demand(items) == SumSeq([k \in 1..Len(items) |-> items[k].quantity], Len(items))

\* the quantity request i adds to (or, for a sale, takes from) the stock
Delta(i) ==
    IF proc[i].op = "sale" THEN 0 - Demand(proc[i].req)
    ELSE IF proc[i].op \in {"adjust", "receive"} THEN proc[i].req
    ELSE 0

Succeeded(i) == proc[i].pc = "done" /\ proc[i].status \in {200, 201}

CommittedDelta ==
    SumSeq([i \in Procs |-> IF Succeeded(i) THEN Delta(i) ELSE 0], NumProcs)

SoldPersisted ==
    SumSeq([s \in 1..Len(sales) |-> Demand(sales[s].items)], Len(sales))

\* C5: when sale requests for the same product run concurrently, each within
\* the on-hand stock but together exceeding it, at most one commits: the
\* stock is not oversold, and a request that lost leaves no Sale row.
C5_ConcurrentSalesNoOversell ==
    ( /\ AllDone
      /\ \A i \in Procs : /\ proc[i].op = "sale"
                          /\ Demand(proc[i].req) <= ConcInitialStock
      /\ SumSeq([i \in Procs |-> Demand(proc[i].req)], NumProcs) > ConcInitialStock )
    => /\ Cardinality({i \in Procs : proc[i].status = 201}) <= 1
       /\ Len(sales) = Cardinality({i \in Procs : proc[i].status = 201})
       /\ SoldPersisted <= ConcInitialStock
       /\ stock[1] >= 0

\* C6: after a sale creation and the purchase-order receipts that ran
\* interleaved with it on the same product have all committed,
\* Stock.quantity is the initial quantity minus the sold quantity plus the
\* received quantities.
C6_SaleAndReceiptNoLostUpdate ==
    ( /\ AllDone
      /\ Cardinality({i \in Procs : proc[i].op = "sale"}) = 1
      /\ \A i \in Procs : proc[i].op \in {"sale", "receive"} /\ Succeeded(i) )
    => stock[1] = ConcInitialStock + CommittedDelta

\* C7: while only stock adjustments and purchase-order receipts run on the
\* product, in any interleaving, Stock.quantity is the initial quantity plus
\* the adjustments and the received quantities of the requests that have
\* committed.
C7_AdjustAndReceiptNoLostUpdate ==
    (\A i \in Procs : proc[i].op \in {"none", "adjust", "receive"})
    => stock[1] = ConcInitialStock + CommittedDelta

\* an adjustment and a receipt both read the Stock row before either wrote
\* it, and both have committed
C7_Witness ==
    \E i, j \in Procs :
        /\ proc[i].op = "adjust" /\ proc[j].op = "receive"
        /\ Succeeded(i) /\ Succeeded(j)
        /\ proc[i].mem = ConcInitialStock /\ proc[j].mem = ConcInitialStock
        /\ stock[1] = ConcInitialStock + proc[i].req + proc[j].req

\* ===================================================================
\* Claims checked under PayConcSpec
\* ===================================================================

PaymentsSum ==
    SumSeq([k \in 1..Len(payments) |-> payments[k].amount], Len(payments))

\* C11: under any interleaving of concurrent payment requests against the
\* same sale, paid_amount never exceeds total (balance_due is never
\* negative) and paid_amount is the sum of the committed payments.
C11_ConcurrentPaymentsConsistent ==
    /\ sales[1].paid_amount <= sales[1].total
    /\ balance_due(sales[1]) >= 0
    /\ AllDone => sales[1].paid_amount = PaymentsSum

\* ===================================================================
\* Claims checked under OrderSpec
\* ===================================================================

Terminal == {"RECEIVED", "CANCELLED"}

\* the request just handled addressed purchase order po
OrderRequest(po) ==
    /\ last'.op \in {"status", "order_update", "receive"}
    /\ last'.req[1] = po

\* C13: once a purchase order is RECEIVED or CANCELLED, every status update,
\* generic update or receive request on it fails and leaves the order
\* unchanged.
C13_TerminalStatusFinal ==
    [][\A po \in 1..Len(orders) :
          orders[po].status \in Terminal =>
             /\ orders'[po] = orders[po]
             /\ OrderRequest(po) => last'.status \notin {200, 201}]_vars

StatusRank(s) ==
    CASE s = "DRAFT" -> 1 [] s = "PENDING" -> 2 [] s = "ORDERED" -> 3
      [] s = "RECEIVED" -> 4 [] OTHER -> 0

\* the status changes the lifecycle allows
ForwardTransition(from, to) ==
    \/ /\ from \notin Terminal
       /\ to = "CANCELLED"
    \/ /\ from \notin Terminal
       /\ to \in {"PENDING", "ORDERED", "RECEIVED"}
       /\ StatusRank(to) > StatusRank(from)
       /\ to = "RECEIVED" => from = "ORDERED"

\* C14: a purchase order's status only moves forward along DRAFT -> PENDING
\* -> ORDERED -> RECEIVED, or to CANCELLED from a non-terminal status; no
\* accepted request moves it backwards or takes it from DRAFT or PENDING
\* straight to RECEIVED.
C14_StatusMovesForward ==
    [][\A po \in 1..Len(orders) :
          orders'[po].status # orders[po].status =>
             ForwardTransition(orders[po].status, orders'[po].status)]_vars

\* every line names an item of the order and a positive quantity
ProperLines(its, lines) ==
    \A k \in 1..Len(lines) : /\ lines[k].item_id \in 1..Len(its)
                             /\ lines[k].received_quantity > 0

\* a line of the call asks for more than the remaining quantity of its item
OverReceipt(its, lines) ==
    /\ ProperLines(its, lines)
    /\ \E k \in 1..Len(lines) :
          lines[k].received_quantity
             > its[lines[k].item_id].quantity - its[lines[k].item_id].received_quantity

\* C15: a receive call with a line whose received_quantity exceeds the
\* remaining quantity of its item aborts as a whole: no received_quantity,
\* Stock row, StockMovement row or order status changes.
C15_OverReceiptAbortsBatch ==
    [][(/\ last'.op = "receive"
        /\ last'.req[1] \in 1..Len(orders)
        /\ orders[last'.req[1]].status \notin Terminal
        /\ OverReceipt(orders[last'.req[1]].items, last'.req[2]))
          => (/\ last'.status # 200
              /\ UNCHANGED <<orders, stock, movements>>)]_vars

\* the quantity the lines of a call add to item k
RECURSIVE LinesFor(_, _, _)
LinesFor(lines, item_id, k) ==
    IF k = 0 THEN 0
    ELSE (IF lines[k].item_id = item_id THEN lines[k].received_quantity ELSE 0)
         + LinesFor(lines, item_id, k - 1)

\* C17: a receive call that leaves an item short keeps the order status and
\* adds the received quantities to received_quantity; the receive call after
\* which every item has received_quantity >= quantity sets the status to
\* RECEIVED; every receive call on a RECEIVED order fails and changes nothing.
C17_ReceiveLifecycle ==
    [][(/\ last'.op = "receive"
        /\ last'.req[1] \in 1..Len(orders)
        /\ Len(last'.req[2]) > 0
        /\ Len(orders[last'.req[1]].items) > 0
        /\ ProperLines(orders[last'.req[1]].items, last'.req[2]))
         => LET po == last'.req[1]
                lines == last'.req[2]
            IN
            /\ (last'.status = 200 /\ ~ all_items_received(orders'[po].items))
                  => /\ orders'[po].status = orders[po].status
                     /\ \A k \in 1..Len(orders[po].items) :
                           orders'[po].items[k].received_quantity
                              = orders[po].items[k].received_quantity
                                   + LinesFor(lines, k, Len(lines))
            /\ (/\ orders[po].status \notin Terminal
                /\ ~ all_items_received(orders[po].items)
                /\ all_items_received(orders'[po].items))
                  => orders'[po].status = "RECEIVED"
            /\ orders[po].status = "RECEIVED"
                  => /\ last'.status # 200
                     /\ UNCHANGED <<orders, stock, movements>>]_vars

\* ===================================================================
\* Further claims checked under ConcSpec
\* ===================================================================

\* C16: in every state, also those reached by interleaved receive calls on
\* the same purchase-order item, 0 <= received_quantity <= quantity for
\* every PurchaseOrderItem.
C16_ReceivedWithinOrdered ==
    \A po \in 1..Len(orders) : \A k \in 1..Len(orders[po].items) :
        /\ 0 <= orders[po].items[k].received_quantity
        /\ orders[po].items[k].received_quantity <= orders[po].items[k].quantity

\* ===================================================================
\* Further claims checked under Spec
\* ===================================================================

\* C18: a purchase-order creation that fails (no items, or an item whose
\* product is not in the caller's shop) leaves no PurchaseOrder row and no
\* PurchaseOrderItem row.
C18_OrderCreateAllOrNothing ==
    [][(last'.op = "order" /\ last'.status # 201) => UNCHANGED orders]_vars

\* ===================================================================
\* Claims checked under InvoiceSpec
\* ===================================================================

\* the handler generated an invoice number that a stored sale already has
InvoiceCollision ==
    /\ last'.op = "sale"
    /\ last'.generated > 0
    /\ invoice_number_exists(last'.invoice_number)

InvoiceNumbersUnique ==
    \A s, t \in 1..Len(sales) :
        sales[s].invoice_number = sales[t].invoice_number => s = t

\* C19: when the generated invoice number collides with a stored one, sale
\* creation regenerates the number and retries, and fails only after its
\* retries are used up; no two stored sales share an invoice number.
C19_RetryOnCollision ==
    [][/\ InvoiceCollision => last'.generated > 1
       /\ InvoiceNumbersUnique']_vars

\* ===================================================================
\* Claims checked under ShopSpec
\* ===================================================================

\* the rows of the other shops: their products with the Stock rows, their
\* sales with the payments recorded against them, their sales returns
OtherShopsRows ==
    [ stock |-> [p \in {q \in DOMAIN products : products[q] # request_user_shop}
                    |-> stock[p]],
      sales |-> [s \in {t \in 1..Len(sales) : sales[t].shop # request_user_shop}
                    |-> sales[s]],
      payments |-> {k \in 1..Len(payments) :
                       sales[payments[k].sale].shop # request_user_shop},
      returns |-> [r \in {t \in 1..Len(returns) : returns[t].shop # request_user_shop}
                      |-> returns[r]] ]

\* C20: no request made by a user of shop A changes an entity owned by shop
\* B: not B's stock through a sale line, not B's sale through a payment,
\* not B's sales return through an approval.
C20_TenantIsolation ==
    [][OtherShopsRows' = OtherShopsRows]_vars

\* ===================================================================
\* Claims about sales returns checked under Spec
\* ===================================================================

\* a line of the return asks for more than its sale item sold
ReturnExceedsSold(items) ==
    \E k \in 1..Len(items) :
        /\ items[k].sale_item \in SaleItemRefs
        /\ items[k].quantity > SaleItemOf(items[k].sale_item).quantity

\* C22: a sales return with a line whose quantity exceeds the quantity of
\* the sale item it refers to is rejected; no SalesReturn or SalesReturnItem
\* row is written and no stock quantity changes.
C22_OverReturnRejected ==
    [][(last'.op = "return" /\ ReturnExceedsSold(last'.req[2]))
          => (/\ last'.status # 201
              /\ UNCHANGED <<returns, stock, movements>>)]_vars

\* a return of two units of a sale item that sold one was refused, and no
\* return is stored
C22_Witness ==
    /\ last.op = "return" /\ last.status = 400
    /\ returns = << >>
    /\ Len(sales) = 1
    /\ \E k \in 1..Len(last.req[2]) :
          /\ last.req[2][k].quantity = 2
          /\ SaleItemOf(last.req[2][k].sale_item).quantity = 1

\* ===================================================================
\* Claims checked under ReturnSpec
\* ===================================================================

\* the quantity the first k lines of a return take back from sale item ref
RECURSIVE ReturnedInLines(_, _, _)
ReturnedInLines(items, ref, k) ==
    IF k = 0 THEN 0
    ELSE (IF items[k].sale_item = ref THEN items[k].quantity ELSE 0)
         + ReturnedInLines(items, ref, k - 1)

\* the quantity all sales returns take back from sale item ref
TotalReturned(ref) ==
    SumSeq([r \in 1..Len(returns) |->
               ReturnedInLines(returns[r].items, ref, Len(returns[r].items))],
           Len(returns))

\* C28: for every sale item, the quantity returned over all the sales
\* returns that refer to it never exceeds the quantity sold on that item.
C28_ReturnedWithinSold ==
    \A ref \in SaleItemRefs : TotalReturned(ref) <= SaleItemOf(ref).quantity

\* ===================================================================
\* Claims checked under OrderTotalsSpec
\* ===================================================================

OrderItemsValue(order) ==
    SumSeq([k \in 1..Len(order.items) |-> PurchaseOrderItem_total_price(order.items[k])],
           Len(order.items))

OrderTotals(order) == <<order.subtotal, order.tax_amount, order.total>>

\* C25: every persisted PurchaseOrder has subtotal equal to the sum of
\* quantity*unit_price over its items and total = subtotal + tax_amount;
\* receiving items and status updates leave subtotal, tax_amount and total
\* unchanged.
C25_OrderTotalsConsistent ==
    [][/\ \A po \in 1..Len(orders') :
             /\ orders'[po].subtotal = OrderItemsValue(orders'[po])
             /\ orders'[po].total = orders'[po].subtotal + orders'[po].tax_amount
       /\ last'.op \in {"receive", "status"} =>
             \A po \in 1..Len(orders) :
                 OrderTotals(orders'[po]) = OrderTotals(orders[po])]_vars

\* ===================================================================
\* Further claims checked under OrderSpec
\* ===================================================================

\* C29: a purchase order with status RECEIVED has received_quantity >=
\* quantity on every one of its items.
C29_ReceivedOrderFullyReceived ==
    \A po \in 1..Len(orders) :
        orders[po].status = "RECEIVED" => all_items_received(orders[po].items)

\* ===================================================================
\* Further claims checked under PaySpec
\* ===================================================================

\* the amounts of the first k Payment rows that are recorded against sale s
RECURSIVE PaidBy(_, _)
PaidBy(s, k) ==
    IF k = 0 THEN 0
    ELSE (IF payments[k].sale = s THEN payments[k].amount ELSE 0) + PaidBy(s, k - 1)

\* C30: for every sale, paid_amount equals the sum of the amounts of the
\* Payment rows recorded against it, after any sequence of payment creations
\* and sale updates.
C30_PaidAmountIsPaymentSum ==
    \A s \in 1..Len(sales) : sales[s].paid_amount = PaidBy(s, Len(payments))


\* C24: StockMovement rows are append-only: a step never changes or removes
\* a row that is there.  A product deletion answered while the product has
\* at least one movement keeps the product and its movements and only sets
\* is_active to false.
C24_MovementsAppendOnly ==
    [][/\ Len(movements') >= Len(movements)
       /\ \A k \in 1..Len(movements) : movements'[k] = movements[k]
       /\ \A i \in Procs :
              (/\ proc[i].pc = "destroy"
               /\ proc'[i].pc = "idle"
               /\ StockMovement_exists(proc[i].req))
              => (/\ proc[i].req \in DOMAIN products'
                  /\ ~is_active'[proc[i].req]
                  /\ movements' = movements)]_vars


\* the sequence component of a stored invoice number: the third of its
\* parts between the "-"
SequenceOf(invoice_number) == int(split(invoice_number)[3])

\* C26: the sequence component of the number of a newly stored sale is 1
\* when the shop has no earlier invoice in the period and otherwise one more
\* than the sequence component of the last one, so that it increases from
\* sale to sale.
C26_SequenceIncreases ==
    [][Len(sales') = Len(sales) + 1
       => SequenceOf(sales'[Len(sales')].invoice_number)
            = IF Len(sales) = 0 THEN 1
              ELSE SequenceOf(sales[Len(sales)].invoice_number) + 1]_vars


\* a purchase order request with at least one item, all of products of the
\* caller's shop
ValidOrderRequest(items) ==
    Len(items) > 0 /\ \A k \in 1..Len(items) : items[k].product \in ShopProducts

\* C27: every valid purchase order creation succeeds and stores an order
\* whose po_number differs from the ones stored before, also when it is
\* served in the same clock second as an earlier creation.
C27_PoNumberDistinct ==
    [][(last'.op = "order" /\ ValidOrderRequest(last'.req))
       => (/\ last'.status = 201
           /\ Len(orders') = Len(orders) + 1
           /\ ~ po_number_exists(orders'[Len(orders')].po_number))]_vars


\* C21: every stored expense has total_amount = amount + tax_amount, its
\* paid_amount is the sum of the amounts of its payments, its status is PAID
\* when paid_amount >= total_amount and PARTIALLY_PAID when
\* 0 < paid_amount < total_amount.
C21_ExpenseInvariants ==
    \A e \in 1..Len(expenses) :
        /\ expenses[e].total_amount = expenses[e].amount + expenses[e].tax_amount
        /\ expenses[e].paid_amount
             = ExpensePaymentsSum(expense_payments, e, Len(expense_payments))
        /\ expenses[e].paid_amount >= expenses[e].total_amount
             => expenses[e].status = "PAID"
        /\ (0 < expenses[e].paid_amount
            /\ expenses[e].paid_amount < expenses[e].total_amount)
             => expenses[e].status = "PARTIALLY_PAID"


\* C23: a registration with a username that is taken is answered with 400
\* and stores no user, shop or ShopUser row; a valid registration is
\* answered with 201 and its user exists afterwards.
C23_Registration ==
    [][last'.op = "register"
       => /\ username_exists(last'.req.username)
               => (last'.status = 400 /\ UNCHANGED account_tables)
          /\ UserRegistrationSerializer_is_valid(last'.req)
               => (/\ last'.status = 201
                   /\ \E u \in 1..Len(users') :
                          users'[u].username = last'.req.username)]_vars

====
